---- MODULE Spec2Model ----
(***************************************************************************)
(* Model of src/STL_Simulation.py: the doubly-linked List, the            *)
(* heapq-backed PriorityQueue, and the Stack, Queue, StlMap, MultiMap and  *)
(* Vector wrappers.  One container instance is constructed                 *)
(* (cls) and then driven by an arbitrary sequence of calls of its public   *)
(* methods.  Every method call is one action; the value it returns or the  *)
(* exception it raises is recorded in res, its name in op.                 *)
(*                                                                         *)
(* SpecPair is a second program: a caller that holds one Python list and   *)
(* builds two instances of one class from it (store, insts, who), then     *)
(* calls their mutators.                                                   *)
(*                                                                         *)
(* Element values are records [k, v]: k = "num" is the Python int v,       *)
(* k = "str" is a string, encoded by its lexicographic rank v.  The        *)
(* tuple (s, -1) that PriorityQueue.push builds from a string s is         *)
(* [k |-> "tup", v |-> rank of s].                                         *)
(***************************************************************************)
EXTENDS Integers, Sequences, FiniteSets, TLC

\* ---- bounds -------------------------------------------------------------
MaxNum == 2
MaxStr == 2
MaxNodes == 3
MaxHeap == 3
\* net (insertions minus removals) is followed only within MaxDrift of the
\* range 0..MaxHeap.
MaxDrift == 1
\* Longest initial_elements handed to a constructor.
MaxInit == 2
\* Most elements held by a Stack or a Queue.
MaxLen == 3
\* Most elements held by one of two instances that live side by side.
MaxPair == 2

VARIABLES cls, mem, alloc, head, tail, size, data, reverse, compare,
          op, res, ref, refres, fresh, net, pushed, popped, clean,
          store, insts, who

vars == <<cls, mem, alloc, head, tail, size, data, reverse, compare,
          op, res, ref, refres, fresh, net, pushed, popped, clean,
          store, insts, who>>

listVars == <<mem, alloc, head, tail, size>>
pqVars == <<data, reverse, compare>>
\* store: the Python list objects of the two-instance program, by identity;
\* insts: its two container objects; who: the instance last called.
pairVars == <<store, insts, who>>

\* ---- values -------------------------------------------------------------
None == 0
NodeIds == 1..MaxNodes
Nums == [k : {"num"}, v : 1..MaxNum]
Strs == [k : {"str"}, v : 1..MaxStr]
Elems == Nums \cup Strs
\* List never inspects its elements; it is driven with integers and one string.
ListElems == Nums \cup {[k |-> "str", v |-> 1]}

NoneVal == [k |-> "None", v |-> 0]
IndexError == [k |-> "IndexError", v |-> 0]
TypeError == [k |-> "TypeError", v |-> 0]
PyInt(n) == [k |-> "num", v |-> n]
PyBool(b) == [k |-> "bool", v |-> IF b THEN 1 ELSE 0]
IsExc(r) == r.k \in {"IndexError", "TypeError"}

\* ---- ListNode -----------------------------------------------------------
ListNode(value) == [data |-> value, next |-> None, prev |-> None]

FreeNode == [data |-> NoneVal, next |-> None, prev |-> None]

\* The nodes met by following next from node n (at most fuel of them).
RECURSIVE Walk(_, _, _)
Walk(m, n, fuel) ==
    IF n = None \/ fuel = 0 THEN <<>>
    ELSE <<n>> \o Walk(m, m[n].next, fuel - 1)

Range(s) == {s[i] : i \in 1..Len(s)}

\* The current List object.
self == [mem |-> mem, alloc |-> alloc, head |-> head, tail |-> tail,
         size |-> size, keep |-> {}]

\* Python reclaims the nodes no longer reachable from the list; the model
\* keeps them, with the links the code left in them, until the next mutation.
\* keep holds the nodes that another live object of the program reaches.
Collect(L) ==
    LET live == Range(Walk(L.mem, L.head, MaxNodes + 1)) \cup L.keep
    IN  [L EXCEPT !.alloc = live,
                  !.mem = [n \in NodeIds |->
                              IF n \in live THEN L.mem[n] ELSE FreeNode]]

NewId(L) == CHOOSE n \in NodeIds \ L.alloc : \A o \in NodeIds \ L.alloc : n <= o

\* ---- List ---------------------------------------------------------------
L_empty(L) == L.size = 0

L_size(L) == L.size

\* push_front that links the new node after the tail, as push_back does.
L_push_front_atTail(L0, value) ==
    LET L == Collect(L0)
        new_node == NewId(L)
        m1 == [L.mem EXCEPT ![new_node] = ListNode(value)]
    IN  IF L_empty(L)
        THEN [L EXCEPT !.mem = m1, !.alloc = @ \cup {new_node},
                       !.head = new_node, !.tail = new_node,
                       !.size = @ + 1]
        ELSE [L EXCEPT !.mem = [m1 EXCEPT ![L.tail].next = new_node,
                                          ![new_node].prev = L.tail],
                       !.alloc = @ \cup {new_node},
                       !.tail = new_node,
                       !.size = @ + 1]

L_push_front(L0, value) ==
    LET L == Collect(L0)
        new_node == NewId(L)
        m1 == [L.mem EXCEPT ![new_node] = ListNode(value)]
    IN  IF L_empty(L)
        THEN [L EXCEPT !.mem = m1, !.alloc = @ \cup {new_node},
                       !.head = new_node, !.tail = new_node,
                       !.size = @ + 1]
        ELSE [L EXCEPT !.mem = [m1 EXCEPT ![new_node].next = L.head,
                                          ![L.head].prev = new_node],
                       !.alloc = @ \cup {new_node},
                       !.head = new_node,
                       !.size = @ + 1]

L_push_back(L0, value) ==
    LET L == Collect(L0)
        new_node == NewId(L)
        m1 == [L.mem EXCEPT ![new_node] = ListNode(value)]
    IN  IF L_empty(L)
        THEN [L EXCEPT !.mem = m1, !.alloc = @ \cup {new_node},
                       !.head = new_node, !.tail = new_node,
                       !.size = @ + 1]
        ELSE [L EXCEPT !.mem = [m1 EXCEPT ![L.tail].next = new_node,
                                          ![new_node].prev = L.tail],
                       !.alloc = @ \cup {new_node},
                       !.tail = new_node,
                       !.size = @ + 1]

\* pop_front that leaves the new head's prev pointing at the removed node.
L_pop_front_keepPrev(L0) ==
    IF L_empty(L0) THEN [st |-> L0, ret |-> IndexError]
    ELSE LET L == Collect(L0)
             value == L.mem[L.head].data
         IN  IF L.head = L.tail
             THEN [st |-> [L EXCEPT !.head = None, !.tail = None,
                                    !.size = @ - 1],
                   ret |-> value]
             ELSE [st |-> [L EXCEPT !.head = L.mem[L.head].next,
                                    !.size = @ - 1],
                   ret |-> value]

\* pop_front / pop_back give the new list and the value returned or raised.
L_pop_front(L0) ==
    IF L_empty(L0) THEN [st |-> L0, ret |-> IndexError]
    ELSE LET L == Collect(L0)
             value == L.mem[L.head].data
         IN  IF L.head = L.tail
             THEN [st |-> [L EXCEPT !.head = None, !.tail = None,
                                    !.size = @ - 1],
                   ret |-> value]
             ELSE LET h == L.mem[L.head].next
                  IN  [st |-> [L EXCEPT !.head = h,
                                        !.mem = [@ EXCEPT ![h].prev = None],
                                        !.size = @ - 1],
                       ret |-> value]

\* pop_back that leaves the new tail's next pointing at the removed node.
L_pop_back_keepNext(L0) ==
    IF L_empty(L0) THEN [st |-> L0, ret |-> IndexError]
    ELSE LET L == Collect(L0)
             value == L.mem[L.tail].data
         IN  IF L.head = L.tail
             THEN [st |-> [L EXCEPT !.head = None, !.tail = None,
                                    !.size = @ - 1],
                   ret |-> value]
             ELSE [st |-> [L EXCEPT !.tail = L.mem[L.tail].prev,
                                    !.size = @ - 1],
                   ret |-> value]

L_pop_back(L0) ==
    IF L_empty(L0) THEN [st |-> L0, ret |-> IndexError]
    ELSE LET L == Collect(L0)
             value == L.mem[L.tail].data
         IN  IF L.head = L.tail
             THEN [st |-> [L EXCEPT !.head = None, !.tail = None,
                                    !.size = @ - 1],
                   ret |-> value]
             ELSE LET t == L.mem[L.tail].prev
                  IN  [st |-> [L EXCEPT !.tail = t,
                                        !.mem = [@ EXCEPT ![t].next = None],
                                        !.size = @ - 1],
                       ret |-> value]

L_front(L) == IF L_empty(L) THEN IndexError ELSE L.mem[L.head].data

L_back(L) == IF L_empty(L) THEN IndexError ELSE L.mem[L.tail].data

\* clear that forgets to reset the tail.
L_clear_keepTail(L) ==
    Collect([L EXCEPT !.head = None, !.size = 0])

\* The nodes dropped by clear are reclaimed at once.
L_clear(L) ==
    Collect([L EXCEPT !.head = None, !.tail = None, !.size = 0])

\* ---- iteration and rendering -----------------------------------------------
\* The strings of rank 1, 2, ... are "a", "b", ...
StrText == <<"a", "b", "c", "d">>

\* Python's str() of an element or heap entry.
PyStr(x) ==
    IF x.k = "num" THEN ToString(x.v)
    ELSE IF x.k = "str" THEN StrText[x.v]
    ELSE "('" \o StrText[x.v] \o "', -1)"

RECURSIVE Join(_, _)
Join(texts, sep) ==
    IF texts = <<>> THEN ""
    ELSE IF Len(texts) = 1 THEN texts[1]
    ELSE texts[1] \o sep \o Join(Tail(texts), sep)

PyList(q) == [k |-> "list", v |-> q]

PyText(t) == [k |-> "text", v |-> t]

\* The values yielded while current is not None (at most fuel of them).
RECURSIVE L_iter_from(_, _, _)
L_iter_from(m, current, fuel) ==
    IF current = None \/ fuel = 0 THEN <<>>
    ELSE <<m[current].data>> \o L_iter_from(m, m[current].next, fuel - 1)

\* Iteration that stops at the last node instead of after it.
L_iter_stopEarly(L) ==
    LET q == L_iter_from(L.mem, L.head, MaxNodes + 1)
    IN  SubSeq(q, 1, Len(q) - 1)

L_iter(L) == L_iter_from(L.mem, L.head, MaxNodes + 1)

L_str(L) ==
    LET result == L_iter_from(L.mem, L.head, MaxNodes + 1)
    IN  "List{" \o Join([i \in 1..Len(result) |-> PyStr(result[i])], ", ")
                \o "}"

\* ---- heapq (the CPython implementation that PriorityQueue calls) ---------
\* Python's < on two heap entries: defined only between entries of one kind.
Comparable(a, b) == a.k = b.k

Lt(a, b) == a.v < b.v

\* Heap positions are 0-based, as in heapq.
At(h, i) == h[i + 1]

Swap(h, i, j) == [h EXCEPT ![i + 1] = h[j + 1], ![j + 1] = h[i + 1]]

\* heapq's siftdown: move the entry at pos up towards startpos while it is
\* smaller than its parent.  err is TRUE when a comparison raised TypeError;
\* the heap is then left as it was at that moment.
RECURSIVE siftdown(_, _, _)
siftdown(h, startpos, pos) ==
    IF pos <= startpos THEN [heap |-> h, err |-> FALSE]
    ELSE LET parentpos == (pos - 1) \div 2
             newitem == At(h, pos)
             parent == At(h, parentpos)
         IN  IF ~Comparable(newitem, parent) THEN [heap |-> h, err |-> TRUE]
             ELSE IF ~Lt(newitem, parent) THEN [heap |-> h, err |-> FALSE]
             ELSE siftdown(Swap(h, pos, parentpos), startpos, parentpos)

\* heapq's siftup: bubble the smaller child up until a leaf is reached, then
\* sift the entry that was at pos back down into place.
RECURSIVE siftup_loop(_, _)
siftup_loop(h, pos) ==
    LET endpos == Len(h)
        limit == endpos \div 2
        childpos == 2 * pos + 1
    IN  IF pos >= limit THEN [heap |-> h, pos |-> pos, err |-> FALSE]
        ELSE IF childpos + 1 < endpos
                 /\ ~Comparable(At(h, childpos), At(h, childpos + 1))
             THEN [heap |-> h, pos |-> pos, err |-> TRUE]
        ELSE LET c == IF childpos + 1 < endpos
                         /\ ~Lt(At(h, childpos), At(h, childpos + 1))
                      THEN childpos + 1 ELSE childpos
             IN  siftup_loop(Swap(h, c, pos), c)

siftup(h, pos) ==
    LET r == siftup_loop(h, pos)
    IN  IF r.err THEN [heap |-> r.heap, err |-> TRUE]
        ELSE siftdown(r.heap, pos, r.pos)

\* A push that appends without restoring the heap order.
heappush_noSift(h, item) == [heap |-> Append(h, item), err |-> FALSE]

heappush(h, item) == siftdown(Append(h, item), 0, Len(h))

\* heappop on a non-empty heap: the new heap, the entry returned, and whether
\* a comparison raised TypeError (nothing is returned then).
heappop(h) ==
    LET n == Len(h)
        lastelt == h[n]
        h1 == SubSeq(h, 1, n - 1)
    IN  IF n = 1 THEN [heap |-> h1, item |-> lastelt, err |-> FALSE]
        ELSE LET returnitem == h1[1]
                 r == siftup([h1 EXCEPT ![1] = lastelt], 0)
             IN  [heap |-> r.heap, item |-> returnitem, err |-> r.err]

\* ---- PriorityQueue ------------------------------------------------------
IsNumber(x) == x.k = "num"

Neg(x) == [x EXCEPT !.v = 0 - x.v]

\* The entry push puts on the heap for value.
Entry(rev, value) ==
    IF rev THEN (IF IsNumber(value) THEN Neg(value)
                 ELSE [k |-> "tup", v |-> value.v])
    ELSE value

\* pop/top that hand back the heap entry without undoing the negation.
Unentry_raw(rev, value) == value

\* What pop and top hand back for a heap entry.
Unentry(rev, value) ==
    IF rev /\ IsNumber(value) THEN Neg(value) ELSE value

PQ_empty(d) == Len(d) = 0

PQ_size(d) == Len(d)

PQ_push(d, rev, value) ==
    LET r == heappush(d, Entry(rev, value))
    IN  [data |-> r.heap, ret |-> IF r.err THEN TypeError ELSE NoneVal]

PQ_pop(d, rev) ==
    IF PQ_empty(d) THEN [data |-> d, ret |-> IndexError]
    ELSE LET r == heappop(d)
         IN  [data |-> r.heap,
              ret |-> IF r.err THEN TypeError ELSE Unentry(rev, r.item)]

\* top that returns None on an empty queue instead of raising.
PQ_top_noRaise(d, rev) ==
    IF PQ_empty(d) THEN NoneVal ELSE Unentry(rev, d[1])

PQ_top(d, rev) ==
    IF PQ_empty(d) THEN IndexError ELSE Unentry(rev, d[1])

\* clear that leaves the storage as it is.
PQ_clear_noop(d) == d

PQ_clear(d) == <<>>

PQ_str(d, rev) ==
    LET elements == [i \in 1..Len(d) |->
                        IF rev THEN PyStr(IF IsNumber(d[i]) THEN Neg(d[i])
                                          ELSE d[i])
                        ELSE PyStr(d[i])]
    IN  "PriorityQueue[" \o Join(elements, ", ") \o "]"

\* ---- construction -------------------------------------------------------
\* Comparators a caller may hand to PriorityQueue: "less" is
\* lambda a, b: a < b (smaller wins), "greater" is lambda a, b: a > b.
Comparators == {"less", "greater"}

ApplyCompare(c, a, b) ==
    IF c = "less" THEN a.v < b.v ELSE a.v > b.v

\* The sequences of at most n elements of S.
SeqsUpTo(S, n) == UNION {[1..m -> S] : m \in 0..n}

\* The fields List.__init__ sets before it looks at initial_elements.
EmptyList == [mem |-> [n \in NodeIds |-> FreeNode], alloc |-> {},
              head |-> None, tail |-> None, size |-> 0, keep |-> {}]

RECURSIVE L_construct_loop(_, _)
L_construct_loop(L, elements) ==
    IF elements = <<>> THEN L
    ELSE L_construct_loop(L_push_back(L, Head(elements)), Tail(elements))

\* A constructor that inserts each initial element at the front.
RECURSIVE L_construct_front_loop(_, _)
L_construct_front_loop(L, elements) ==
    IF elements = <<>> THEN L
    ELSE L_construct_front_loop(L_push_front(L, Head(elements)),
                                Tail(elements))

L_construct_front(initial_elements) ==
    IF initial_elements # <<>>
    THEN L_construct_front_loop(EmptyList, initial_elements)
    ELSE EmptyList

\* List(initial_elements); no argument, None and [] all skip the loop.
L_construct(initial_elements) ==
    IF initial_elements # <<>>
    THEN L_construct_loop(EmptyList, initial_elements)
    ELSE EmptyList

List_init(initial_elements) ==
    LET L == L_construct(initial_elements)
    IN  /\ mem = L.mem
        /\ alloc = L.alloc
        /\ head = L.head
        /\ tail = L.tail
        /\ size = L.size

\* The pushes of PriorityQueue.__init__: the storage they leave, and whether
\* one of them raised (the constructor then raises and builds no queue).
RECURSIVE PQ_construct_loop(_, _, _)
PQ_construct_loop(d, rev, elements) ==
    IF elements = <<>> THEN [data |-> d, err |-> FALSE]
    ELSE LET r == PQ_push(d, rev, Head(elements))
         IN  IF IsExc(r.ret) THEN [data |-> r.data, err |-> TRUE]
             ELSE PQ_construct_loop(r.data, rev, Tail(elements))

PQ_construct(rev, initial_elements) ==
    IF initial_elements # <<>>
    THEN PQ_construct_loop(<<>>, rev, initial_elements)
    ELSE [data |-> <<>>, err |-> FALSE]

PriorityQueue_init(c, initial_elements) ==
    LET r == PQ_construct(c = "None", initial_elements)
    IN  /\ ~r.err
        /\ data = r.data
        /\ reverse = (c = "None")
        /\ compare = c

\* ---- Stack ----------------------------------------------------------------
S_empty(d) == Len(d) = 0

S_push(d, value) == Append(d, value)

\* pop that takes the element at the bottom of the list.
S_pop_bottom(d) ==
    IF S_empty(d) THEN [data |-> d, ret |-> IndexError]
    ELSE [data |-> Tail(d), ret |-> Head(d)]

S_pop(d) ==
    IF S_empty(d) THEN [data |-> d, ret |-> IndexError]
    ELSE [data |-> SubSeq(d, 1, Len(d) - 1), ret |-> d[Len(d)]]

S_top(d) == IF S_empty(d) THEN IndexError ELSE d[Len(d)]

S_clear(d) == <<>>

RECURSIVE S_construct_loop(_, _)
S_construct_loop(d, elements) ==
    IF elements = <<>> THEN d
    ELSE S_construct_loop(S_push(d, Head(elements)), Tail(elements))

S_construct(initial_elements) ==
    IF initial_elements # <<>> THEN S_construct_loop(<<>>, initial_elements)
    ELSE <<>>

\* ---- Queue ----------------------------------------------------------------
Q_empty(d) == Len(d) = 0

Q_push(d, value) == Append(d, value)

\* pop that takes the element at the right end of the deque.
Q_pop_right(d) ==
    IF Q_empty(d) THEN [data |-> d, ret |-> IndexError]
    ELSE [data |-> SubSeq(d, 1, Len(d) - 1), ret |-> d[Len(d)]]

Q_pop(d) ==
    IF Q_empty(d) THEN [data |-> d, ret |-> IndexError]
    ELSE [data |-> Tail(d), ret |-> Head(d)]

Q_front(d) == IF Q_empty(d) THEN IndexError ELSE d[1]

Q_back(d) == IF Q_empty(d) THEN IndexError ELSE d[Len(d)]

Q_clear(d) == <<>>

RECURSIVE Q_construct_loop(_, _)
Q_construct_loop(d, elements) ==
    IF elements = <<>> THEN d
    ELSE Q_construct_loop(Q_push(d, Head(elements)), Tail(elements))

Q_construct(initial_elements) ==
    IF initial_elements # <<>> THEN Q_construct_loop(<<>>, initial_elements)
    ELSE <<>>

\* ---- StlMap ---------------------------------------------------------------
\* The dict self._data is the set of its (key, value) items.
DictHas(d, key) == \E p \in d : p[1] = key

DictSet(d, key, value) == {p \in d : p[1] # key} \cup {<<key, value>>}

DictDel(d, key) == {p \in d : p[1] # key}

DictLen(d) == Cardinality(d)

MapKeys == Nums

MapValues == Nums

\* insert that stores the pair whether or not the key is present.
M_insert_overwrite(d, key, value) ==
    [data |-> DictSet(d, key, value), ret |-> PyBool(TRUE)]

M_insert(d, key, value) ==
    IF DictHas(d, key) THEN [data |-> d, ret |-> PyBool(FALSE)]
    ELSE [data |-> DictSet(d, key, value), ret |-> PyBool(TRUE)]

M_erase(d, key) ==
    IF DictHas(d, key) THEN [data |-> DictDel(d, key), ret |-> PyInt(1)]
    ELSE [data |-> d, ret |-> PyInt(0)]

M_setitem(d, key, value) == DictSet(d, key, value)

M_size(d) == DictLen(d)

M_clear(d) == {}

RECURSIVE M_construct_loop(_, _)
M_construct_loop(d, elements) ==
    IF elements = <<>> THEN d
    ELSE M_construct_loop(M_insert(d, Head(elements)[1], Head(elements)[2]).data,
                          Tail(elements))

M_construct(initial_elements) ==
    IF initial_elements # <<>> THEN M_construct_loop({}, initial_elements)
    ELSE {}

\* The reference map: a function from the keys present to their values.
RefInsert(f, key, value) ==
    IF key \in DOMAIN f THEN f
    ELSE [k \in DOMAIN f \cup {key} |-> IF k = key THEN value ELSE f[k]]

RefAssign(f, key, value) ==
    [k \in DOMAIN f \cup {key} |-> IF k = key THEN value ELSE f[k]]

RefErase(f, key) == [k \in DOMAIN f \ {key} |-> f[k]]

RECURSIVE RefFromPairs(_, _)
RefFromPairs(f, elements) ==
    IF elements = <<>> THEN f
    ELSE RefFromPairs(RefInsert(f, Head(elements)[1], Head(elements)[2]),
                      Tail(elements))

\* ---- initial states --------------------------------------------------------
\* ---- MultiMap ------------------------------------------------------------
\* self._data maps a key to the list of its values: pairs <<key, values>>.
DictGet(d, key) == (CHOOSE p \in d : p[1] = key)[2]

\* self._data.get(key, [])
DictGetOr(d, key, default) == IF DictHas(d, key) THEN DictGet(d, key) ELSE default

Member(q, value) == \E i \in 1..Len(q) : q[i] = value

\* list.remove(value): drops the first occurrence.
ListRemove(q, value) ==
    LET i == CHOOSE j \in 1..Len(q) :
                 q[j] = value /\ \A h \in 1..(j - 1) : q[h] # value
    IN  SubSeq(q, 1, i - 1) \o SubSeq(q, i + 1, Len(q))

MM_insert(d, key, value) ==
    LET d1 == IF ~DictHas(d, key) THEN DictSet(d, key, <<>>) ELSE d
    IN  DictSet(d1, key, Append(DictGet(d1, key), value))

MM_erase(d, key) ==
    IF DictHas(d, key)
    THEN [data |-> DictDel(d, key), ret |-> PyInt(Len(DictGet(d, key)))]
    ELSE [data |-> d, ret |-> PyInt(0)]

\* erase_one that keeps the key when its last value is removed.
MM_erase_one_keepKey(d, key, value) ==
    IF DictHas(d, key) /\ Member(DictGet(d, key), value)
    THEN [data |-> DictSet(d, key, ListRemove(DictGet(d, key), value)),
          ret |-> PyInt(1)]
    ELSE [data |-> d, ret |-> PyInt(0)]

MM_erase_one(d, key, value) ==
    IF DictHas(d, key) /\ Member(DictGet(d, key), value)
    THEN LET d1 == DictSet(d, key, ListRemove(DictGet(d, key), value))
         IN  [data |-> IF DictGet(d1, key) = <<>> THEN DictDel(d1, key)
                       ELSE d1,
              ret |-> PyInt(1)]
    ELSE [data |-> d, ret |-> PyInt(0)]

MM_contains(d, key) == DictHas(d, key)

MM_count(d, key) == Len(DictGetOr(d, key, <<>>))

\* sum(len(values) for values in self._data.values())
RECURSIVE MM_size(_)
MM_size(d) ==
    IF d = {} THEN 0
    ELSE LET p == CHOOSE x \in d : TRUE
         IN  Len(p[2]) + MM_size(d \ {p})

MM_empty(d) == DictLen(d) = 0

MM_clear(d) == {}

RECURSIVE MM_construct_loop(_, _)
MM_construct_loop(d, elements) ==
    IF elements = <<>> THEN d
    ELSE MM_construct_loop(MM_insert(d, Head(elements)[1], Head(elements)[2]),
                           Tail(elements))

MM_construct(initial_elements) ==
    IF initial_elements # <<>> THEN MM_construct_loop({}, initial_elements)
    ELSE {}

\* ---- Vector --------------------------------------------------------------
\* Python list objects live in a store st, by identity; initial_elements is
\* the identity of the caller's list or None, new_list that of a new list.
\* A constructor that keeps the caller's list instead of copying it.
V_construct_alias(st, new_list, initial_elements) ==
    IF initial_elements # None /\ st[initial_elements] # <<>>
    THEN [store |-> st, data |-> initial_elements]
    ELSE [store |-> [st EXCEPT ![new_list] = <<>>], data |-> new_list]

V_construct(st, new_list, initial_elements) ==
    IF initial_elements # None /\ st[initial_elements] # <<>>
    THEN [store |-> [st EXCEPT ![new_list] = st[initial_elements]],
          data |-> new_list]
    ELSE [store |-> [st EXCEPT ![new_list] = <<>>], data |-> new_list]

V_size(d) == Len(d)

V_empty(d) == Len(d) = 0

V_push_back(d, value) == Append(d, value)

V_pop_back(d) ==
    IF V_empty(d) THEN [data |-> d, ret |-> IndexError]
    ELSE [data |-> SubSeq(d, 1, Len(d) - 1), ret |-> d[Len(d)]]

V_insert(d, index, value) ==
    IF index < 0 \/ index > V_size(d) THEN [data |-> d, ret |-> IndexError]
    ELSE [data |-> SubSeq(d, 1, index) \o <<value>>
                       \o SubSeq(d, index + 1, Len(d)),
          ret |-> NoneVal]

V_at(d, index) ==
    IF index < 0 \/ index >= V_size(d) THEN IndexError ELSE d[index + 1]

\* erase whose bounds check lets index = size() through.
V_erase_pastEnd(d, index) ==
    IF index < 0 \/ index > V_size(d) THEN [data |-> d, ret |-> IndexError]
    ELSE [data |-> SubSeq(d, 1, index) \o SubSeq(d, index + 2, Len(d)),
          ret |-> NoneVal]

V_erase(d, index) ==
    IF index < 0 \/ index >= V_size(d) THEN [data |-> d, ret |-> IndexError]
    ELSE [data |-> SubSeq(d, 1, index) \o SubSeq(d, index + 2, Len(d)),
          ret |-> NoneVal]

\* self._data[index] = value: a negative index counts from the end.
V_setitem(d, index, value) ==
    IF index >= Len(d) \/ index < 0 - Len(d)
    THEN [data |-> d, ret |-> IndexError]
    ELSE LET i == IF index < 0 THEN index + Len(d) ELSE index
         IN  [data |-> [d EXCEPT ![i + 1] = value], ret |-> NoneVal]

V_clear(d) == <<>>

\* ---- initial states -------------------------------------------------------
Reverse(q) == [i \in 1..Len(q) |-> q[Len(q) + 1 - i]]

\* A program with one container has no second instance and no caller list.
ObjIds == 1..3

NoInst == [built |-> FALSE, data |-> None, reverse |-> TRUE,
           compare |-> "None", head |-> None, tail |-> None, size |-> 0]

Init_common ==
    /\ store = [o \in ObjIds |-> <<>>]
    /\ insts = [i \in 1..2 |-> NoInst]
    /\ who = 0
    /\ op = "init"
    /\ res = NoneVal
    /\ refres = NoneVal
    /\ fresh = TRUE
    /\ popped = <<>>
    /\ clean = TRUE

Init_List ==
    /\ cls = "List"
    /\ \E initial_elements \in SeqsUpTo(ListElems, MaxInit) :
           /\ List_init(initial_elements)
           /\ ref = initial_elements
           /\ net = Len(initial_elements)
    /\ PriorityQueue_init("None", <<>>)
    /\ pushed = <<>>
    /\ Init_common

Init_PriorityQueue ==
    /\ cls = "PriorityQueue"
    /\ \E initial_elements \in SeqsUpTo(Elems, MaxInit) :
           /\ \E c \in Comparators \cup {"None"} :
                  PriorityQueue_init(c, initial_elements)
           /\ net = Len(initial_elements)
           /\ pushed = initial_elements
    /\ List_init(<<>>)
    /\ ref = <<>>
    /\ Init_common

\* The reference for Stack and Queue is the sequence of the elements pushed
\* and not yet popped, newest first.
Init_Stack ==
    /\ cls = "Stack"
    /\ \E initial_elements \in SeqsUpTo(ListElems, MaxInit) :
           /\ data = S_construct(initial_elements)
           /\ ref = Reverse(initial_elements)
    /\ reverse = TRUE
    /\ compare = "None"
    /\ List_init(<<>>)
    /\ net = 0
    /\ pushed = <<>>
    /\ Init_common

Init_Queue ==
    /\ cls = "Queue"
    /\ \E initial_elements \in SeqsUpTo(ListElems, MaxInit) :
           /\ data = Q_construct(initial_elements)
           /\ ref = Reverse(initial_elements)
    /\ reverse = TRUE
    /\ compare = "None"
    /\ List_init(<<>>)
    /\ net = 0
    /\ pushed = <<>>
    /\ Init_common

Init_StlMap ==
    /\ cls = "StlMap"
    /\ \E initial_elements \in SeqsUpTo(MapKeys \X MapValues, MaxInit) :
           /\ data = M_construct(initial_elements)
           /\ ref = RefFromPairs(<<>>, initial_elements)
    /\ reverse = TRUE
    /\ compare = "None"
    /\ List_init(<<>>)
    /\ net = 0
    /\ pushed = <<>>
    /\ Init_common

\* For a Vector ref holds the arguments of the last call.
Init_Vector ==
    /\ cls = "Vector"
    /\ \E initial_elements \in SeqsUpTo(ListElems, MaxInit) :
           LET st == [o \in ObjIds |-> IF o = 1 THEN initial_elements
                                       ELSE <<>>]
               r == V_construct(st, 2, 1)
           IN  data = r.store[r.data]
    /\ ref = <<>>
    /\ reverse = TRUE
    /\ compare = "None"
    /\ List_init(<<>>)
    /\ net = 0
    /\ pushed = <<>>
    /\ Init_common

\* For a MultiMap ref holds the arguments of the last call.
Init_MultiMap ==
    /\ cls = "MultiMap"
    /\ \E initial_elements \in SeqsUpTo(MapKeys \X MapValues, MaxInit) :
           data = MM_construct(initial_elements)
    /\ ref = <<>>
    /\ reverse = TRUE
    /\ compare = "None"
    /\ List_init(<<>>)
    /\ net = 0
    /\ pushed = <<>>
    /\ Init_common

Init ==
    \/ Init_MultiMap
    \/ Init_Vector
    \/ Init_StlMap
    \/ Init_List
    \/ Init_PriorityQueue
    \/ Init_Stack
    \/ Init_Queue

\* ---- List actions -------------------------------------------------------
SetList(L) ==
    /\ mem' = L.mem
    /\ alloc' = L.alloc
    /\ head' = L.head
    /\ tail' = L.tail
    /\ size' = L.size

pqGhost == <<pushed, popped, clean>>

List_push_front(value) ==
    /\ cls = "List"
    /\ size < MaxNodes
    /\ SetList(L_push_front(self, value))
    /\ op' = "push_front"
    /\ res' = NoneVal
    /\ fresh' = FALSE
    /\ ref' = <<value>> \o ref
    /\ refres' = NoneVal
    /\ net' = net + 1
    /\ UNCHANGED <<cls, pairVars, pqVars, pqGhost>>

List_push_back(value) ==
    /\ cls = "List"
    /\ size < MaxNodes
    /\ SetList(L_push_back(self, value))
    /\ op' = "push_back"
    /\ res' = NoneVal
    /\ fresh' = fresh
    /\ ref' = Append(ref, value)
    /\ refres' = NoneVal
    /\ net' = net + 1
    /\ UNCHANGED <<cls, pairVars, pqVars, pqGhost>>

List_pop_front ==
    /\ cls = "List"
    /\ LET r == L_pop_front(self)
       IN  /\ SetList(r.st)
           /\ res' = r.ret
           /\ net' = IF IsExc(r.ret) THEN net ELSE net - 1
    /\ op' = "pop_front"
    /\ fresh' = (fresh /\ ref = <<>>)
    /\ ref' = IF ref = <<>> THEN ref ELSE Tail(ref)
    /\ refres' = IF ref = <<>> THEN IndexError ELSE Head(ref)
    /\ UNCHANGED <<cls, pairVars, pqVars, pqGhost>>

List_pop_back ==
    /\ cls = "List"
    /\ LET r == L_pop_back(self)
       IN  /\ SetList(r.st)
           /\ res' = r.ret
           /\ net' = IF IsExc(r.ret) THEN net ELSE net - 1
    /\ op' = "pop_back"
    /\ fresh' = (fresh /\ ref = <<>>)
    /\ ref' = IF ref = <<>> THEN ref ELSE SubSeq(ref, 1, Len(ref) - 1)
    /\ refres' = IF ref = <<>> THEN IndexError ELSE ref[Len(ref)]
    /\ UNCHANGED <<cls, pairVars, pqVars, pqGhost>>

List_front ==
    /\ cls = "List"
    /\ op' = "front"
    /\ res' = L_front(self)
    /\ refres' = IF ref = <<>> THEN IndexError ELSE Head(ref)
    /\ UNCHANGED <<cls, pairVars, listVars, pqVars, pqGhost, ref, fresh, net>>

List_back ==
    /\ cls = "List"
    /\ op' = "back"
    /\ res' = L_back(self)
    /\ refres' = IF ref = <<>> THEN IndexError ELSE ref[Len(ref)]
    /\ UNCHANGED <<cls, pairVars, listVars, pqVars, pqGhost, ref, fresh, net>>

List_size ==
    /\ cls = "List"
    /\ op' = "size"
    /\ res' = PyInt(L_size(self))
    /\ refres' = PyInt(Len(ref))
    /\ UNCHANGED <<cls, pairVars, listVars, pqVars, pqGhost, ref, fresh, net>>

List_empty ==
    /\ cls = "List"
    /\ op' = "empty"
    /\ res' = PyBool(L_empty(self))
    /\ refres' = PyBool(ref = <<>>)
    /\ UNCHANGED <<cls, pairVars, listVars, pqVars, pqGhost, ref, fresh, net>>

List_iter ==
    /\ cls = "List"
    /\ op' = "iter"
    /\ res' = PyList(L_iter(self))
    /\ refres' = PyList(ref)
    /\ UNCHANGED <<cls, pairVars, listVars, pqVars, pqGhost, ref, fresh, net>>

List_str ==
    /\ cls = "List"
    /\ op' = "str"
    /\ res' = PyText(L_str(self))
    /\ refres' = res'
    /\ UNCHANGED <<cls, pairVars, listVars, pqVars, pqGhost, ref, fresh, net>>

List_clear ==
    /\ cls = "List"
    /\ SetList(L_clear(self))
    /\ op' = "clear"
    /\ res' = NoneVal
    /\ fresh' = FALSE
    /\ ref' = <<>>
    /\ refres' = NoneVal
    /\ net' = net - Len(Walk(mem, head, MaxNodes + 1))
    /\ UNCHANGED <<cls, pairVars, pqVars, pqGhost>>

\* ---- PriorityQueue actions ----------------------------------------------
listGhost == <<ref, refres, fresh>>

PriorityQueue_push(value) ==
    /\ cls = "PriorityQueue"
    /\ Len(data) < MaxHeap
    /\ LET r == PQ_push(data, reverse, value)
           ok == ~IsExc(r.ret)
       IN  /\ data' = r.data
           /\ res' = r.ret
           /\ net' = IF ok THEN net + 1 ELSE net
           /\ net' <= MaxHeap + MaxDrift
           /\ IF data = <<>>
              THEN pushed' = <<value>> /\ popped' = <<>> /\ clean' = ok
              ELSE IF clean /\ popped = <<>> /\ ok
              THEN pushed' = Append(pushed, value) /\ UNCHANGED <<popped, clean>>
              ELSE pushed' = <<>> /\ popped' = <<>> /\ clean' = FALSE
    /\ op' = "push"
    /\ UNCHANGED <<cls, pairVars, listVars, reverse, compare, listGhost>>

PriorityQueue_pop ==
    /\ cls = "PriorityQueue"
    /\ LET r == PQ_pop(data, reverse)
       IN  /\ data' = r.data
           /\ res' = r.ret
           /\ net' = IF IsExc(r.ret) THEN net ELSE net - 1
           /\ net' >= 0 - MaxDrift
           /\ IF r.ret = IndexError THEN UNCHANGED pqGhost
              ELSE IF clean /\ r.ret # TypeError
              THEN popped' = Append(popped, r.ret) /\ UNCHANGED <<pushed, clean>>
              ELSE pushed' = <<>> /\ popped' = <<>> /\ clean' = FALSE
    /\ op' = "pop"
    /\ UNCHANGED <<cls, pairVars, listVars, reverse, compare, listGhost>>

\* top that removes the element it returns.
PriorityQueue_top_removes ==
    /\ cls = "PriorityQueue"
    /\ op' = "top"
    /\ LET r == PQ_pop(data, reverse)
       IN  data' = r.data /\ res' = r.ret
    /\ UNCHANGED <<cls, pairVars, listVars, reverse, compare, pqGhost, listGhost, net>>

PriorityQueue_top ==
    /\ cls = "PriorityQueue"
    /\ op' = "top"
    /\ res' = PQ_top(data, reverse)
    /\ UNCHANGED <<cls, pairVars, listVars, pqVars, pqGhost, listGhost, net>>

PriorityQueue_size ==
    /\ cls = "PriorityQueue"
    /\ op' = "size"
    /\ res' = PyInt(PQ_size(data))
    /\ UNCHANGED <<cls, pairVars, listVars, pqVars, pqGhost, listGhost, net>>

PriorityQueue_empty ==
    /\ cls = "PriorityQueue"
    /\ op' = "empty"
    /\ res' = PyBool(PQ_empty(data))
    /\ UNCHANGED <<cls, pairVars, listVars, pqVars, pqGhost, listGhost, net>>

PriorityQueue_str ==
    /\ cls = "PriorityQueue"
    /\ op' = "str"
    /\ res' = PyText(PQ_str(data, reverse))
    /\ UNCHANGED <<cls, pairVars, listVars, pqVars, pqGhost, listGhost, net>>

PriorityQueue_clear ==
    /\ cls = "PriorityQueue"
    /\ data' = PQ_clear(data)
    /\ op' = "clear"
    /\ res' = NoneVal
    /\ net' = net - Len(data)
    /\ net' >= 0 - MaxDrift
    /\ pushed' = <<>>
    /\ popped' = <<>>
    /\ clean' = TRUE
    /\ UNCHANGED <<cls, pairVars, listVars, reverse, compare, listGhost>>

\* ---- Stack and Queue actions ----------------------------------------------
adapterFrame == <<cls, pairVars, listVars, reverse, compare, pqGhost, fresh, net>>

Stack_push(value) ==
    /\ cls = "Stack"
    /\ Len(data) < MaxLen
    /\ data' = S_push(data, value)
    /\ op' = "push"
    /\ res' = NoneVal
    /\ ref' = <<value>> \o ref
    /\ refres' = NoneVal
    /\ UNCHANGED adapterFrame

Stack_pop ==
    /\ cls = "Stack"
    /\ LET r == S_pop(data)
       IN  data' = r.data /\ res' = r.ret
    /\ op' = "pop"
    /\ ref' = IF ref = <<>> THEN ref ELSE Tail(ref)
    /\ refres' = IF ref = <<>> THEN IndexError ELSE Head(ref)
    /\ UNCHANGED adapterFrame

Stack_top ==
    /\ cls = "Stack"
    /\ op' = "top"
    /\ res' = S_top(data)
    /\ refres' = IF ref = <<>> THEN IndexError ELSE Head(ref)
    /\ UNCHANGED <<adapterFrame, data, ref>>

Stack_clear ==
    /\ cls = "Stack"
    /\ data' = S_clear(data)
    /\ op' = "clear"
    /\ res' = NoneVal
    /\ ref' = <<>>
    /\ refres' = NoneVal
    /\ UNCHANGED adapterFrame

Queue_push(value) ==
    /\ cls = "Queue"
    /\ Len(data) < MaxLen
    /\ data' = Q_push(data, value)
    /\ op' = "push"
    /\ res' = NoneVal
    /\ ref' = <<value>> \o ref
    /\ refres' = NoneVal
    /\ UNCHANGED adapterFrame

Queue_pop ==
    /\ cls = "Queue"
    /\ LET r == Q_pop(data)
       IN  data' = r.data /\ res' = r.ret
    /\ op' = "pop"
    /\ ref' = IF ref = <<>> THEN ref ELSE SubSeq(ref, 1, Len(ref) - 1)
    /\ refres' = IF ref = <<>> THEN IndexError ELSE ref[Len(ref)]
    /\ UNCHANGED adapterFrame

Queue_front ==
    /\ cls = "Queue"
    /\ op' = "front"
    /\ res' = Q_front(data)
    /\ refres' = IF ref = <<>> THEN IndexError ELSE ref[Len(ref)]
    /\ UNCHANGED <<adapterFrame, data, ref>>

Queue_back ==
    /\ cls = "Queue"
    /\ op' = "back"
    /\ res' = Q_back(data)
    /\ refres' = IF ref = <<>> THEN IndexError ELSE Head(ref)
    /\ UNCHANGED <<adapterFrame, data, ref>>

Queue_clear ==
    /\ cls = "Queue"
    /\ data' = Q_clear(data)
    /\ op' = "clear"
    /\ res' = NoneVal
    /\ ref' = <<>>
    /\ refres' = NoneVal
    /\ UNCHANGED adapterFrame

\* ---- StlMap actions -------------------------------------------------------
StlMap_insert(key, value) ==
    /\ cls = "StlMap"
    /\ LET r == M_insert(data, key, value)
       IN  data' = r.data /\ res' = r.ret
    /\ op' = "insert"
    /\ ref' = RefInsert(ref, key, value)
    /\ refres' = PyBool(key \notin DOMAIN ref)
    /\ UNCHANGED adapterFrame

StlMap_erase(key) ==
    /\ cls = "StlMap"
    /\ LET r == M_erase(data, key)
       IN  data' = r.data /\ res' = r.ret
    /\ op' = "erase"
    /\ ref' = RefErase(ref, key)
    /\ refres' = PyInt(IF key \in DOMAIN ref THEN 1 ELSE 0)
    /\ UNCHANGED adapterFrame

StlMap_setitem(key, value) ==
    /\ cls = "StlMap"
    /\ data' = M_setitem(data, key, value)
    /\ op' = "setitem"
    /\ res' = NoneVal
    /\ ref' = RefAssign(ref, key, value)
    /\ refres' = NoneVal
    /\ UNCHANGED adapterFrame

StlMap_clear ==
    /\ cls = "StlMap"
    /\ data' = M_clear(data)
    /\ op' = "clear"
    /\ res' = NoneVal
    /\ ref' = <<>>
    /\ refres' = NoneVal
    /\ UNCHANGED adapterFrame

\* ---- Vector actions --------------------------------------------------------
VecIdx == (0 - 1)..(MaxLen + 1)

Vector_push_back(value) ==
    /\ cls = "Vector"
    /\ Len(data) < MaxLen
    /\ data' = V_push_back(data, value)
    /\ op' = "push_back"
    /\ res' = NoneVal
    /\ ref' = <<value>>
    /\ UNCHANGED <<adapterFrame, refres>>

Vector_pop_back ==
    /\ cls = "Vector"
    /\ LET r == V_pop_back(data)
       IN  data' = r.data /\ res' = r.ret
    /\ op' = "pop_back"
    /\ ref' = <<>>
    /\ UNCHANGED <<adapterFrame, refres>>

Vector_at(index) ==
    /\ cls = "Vector"
    /\ op' = "at"
    /\ res' = V_at(data, index)
    /\ ref' = <<PyInt(index)>>
    /\ UNCHANGED <<adapterFrame, data, refres>>

Vector_insert(index, value) ==
    /\ cls = "Vector"
    /\ Len(data) < MaxLen
    /\ LET r == V_insert(data, index, value)
       IN  data' = r.data /\ res' = r.ret
    /\ op' = "insert"
    /\ ref' = <<PyInt(index), value>>
    /\ UNCHANGED <<adapterFrame, refres>>

Vector_erase(index) ==
    /\ cls = "Vector"
    /\ LET r == V_erase(data, index)
       IN  data' = r.data /\ res' = r.ret
    /\ op' = "erase"
    /\ ref' = <<PyInt(index)>>
    /\ UNCHANGED <<adapterFrame, refres>>

Vector_clear ==
    /\ cls = "Vector"
    /\ data' = V_clear(data)
    /\ op' = "clear"
    /\ res' = NoneVal
    /\ ref' = <<>>
    /\ UNCHANGED <<adapterFrame, refres>>

\* ---- MultiMap actions ------------------------------------------------------
MultiMap_insert(key, value) ==
    /\ cls = "MultiMap"
    /\ MM_size(data) < MaxLen
    /\ data' = MM_insert(data, key, value)
    /\ op' = "insert"
    /\ res' = NoneVal
    /\ ref' = <<key, value>>
    /\ UNCHANGED <<adapterFrame, refres>>

MultiMap_erase(key) ==
    /\ cls = "MultiMap"
    /\ LET r == MM_erase(data, key)
       IN  data' = r.data /\ res' = r.ret
    /\ op' = "erase"
    /\ ref' = <<key>>
    /\ UNCHANGED <<adapterFrame, refres>>

MultiMap_erase_one(key, value) ==
    /\ cls = "MultiMap"
    /\ LET r == MM_erase_one(data, key, value)
       IN  data' = r.data /\ res' = r.ret
    /\ op' = "erase_one"
    /\ ref' = <<key, value>>
    /\ UNCHANGED <<adapterFrame, refres>>

MultiMap_contains(key) ==
    /\ cls = "MultiMap"
    /\ op' = "contains"
    /\ res' = PyBool(MM_contains(data, key))
    /\ ref' = <<key>>
    /\ UNCHANGED <<adapterFrame, data, refres>>

MultiMap_count(key) ==
    /\ cls = "MultiMap"
    /\ op' = "count"
    /\ res' = PyInt(MM_count(data, key))
    /\ ref' = <<key>>
    /\ UNCHANGED <<adapterFrame, data, refres>>

MultiMap_size ==
    /\ cls = "MultiMap"
    /\ op' = "size"
    /\ res' = PyInt(MM_size(data))
    /\ ref' = <<>>
    /\ UNCHANGED <<adapterFrame, data, refres>>

MultiMap_empty ==
    /\ cls = "MultiMap"
    /\ op' = "empty"
    /\ res' = PyBool(MM_empty(data))
    /\ ref' = <<>>
    /\ UNCHANGED <<adapterFrame, data, refres>>

MultiMap_clear ==
    /\ cls = "MultiMap"
    /\ data' = MM_clear(data)
    /\ op' = "clear"
    /\ res' = NoneVal
    /\ ref' = <<>>
    /\ UNCHANGED <<adapterFrame, refres>>

Next ==
    \/ \E key \in MapKeys, value \in MapValues : MultiMap_insert(key, value)
    \/ \E key \in MapKeys : MultiMap_erase(key)
    \/ \E key \in MapKeys, value \in MapValues :
           MultiMap_erase_one(key, value)
    \/ \E key \in MapKeys : MultiMap_contains(key)
    \/ \E key \in MapKeys : MultiMap_count(key)
    \/ MultiMap_size
    \/ MultiMap_empty
    \/ MultiMap_clear
    \/ \E value \in ListElems : Vector_push_back(value)
    \/ Vector_pop_back
    \/ \E index \in VecIdx : Vector_at(index)
    \/ \E index \in VecIdx, value \in ListElems : Vector_insert(index, value)
    \/ \E index \in VecIdx : Vector_erase(index)
    \/ Vector_clear
    \/ \E value \in ListElems : List_push_front(value)
    \/ \E value \in ListElems : List_push_back(value)
    \/ List_pop_front
    \/ List_pop_back
    \/ List_front
    \/ List_back
    \/ List_size
    \/ List_empty
    \/ List_iter
    \/ List_str
    \/ List_clear
    \/ \E value \in Elems : PriorityQueue_push(value)
    \/ PriorityQueue_pop
    \/ PriorityQueue_top
    \/ PriorityQueue_size
    \/ PriorityQueue_empty
    \/ PriorityQueue_str
    \/ PriorityQueue_clear
    \/ \E value \in ListElems : Stack_push(value)
    \/ Stack_pop
    \/ Stack_top
    \/ Stack_clear
    \/ \E value \in ListElems : Queue_push(value)
    \/ Queue_pop
    \/ Queue_front
    \/ Queue_back
    \/ Queue_clear
    \/ \E key \in MapKeys, value \in MapValues : StlMap_insert(key, value)
    \/ \E key \in MapKeys : StlMap_erase(key)
    \/ \E key \in MapKeys, value \in MapValues : StlMap_setitem(key, value)
    \/ StlMap_clear

Spec == Init /\ [][Next]_vars

\* ---- two instances of one class, built from one caller list -------------
\* The caller's list is object 1; instance i keeps its own list as object
\* i + 1.  The nodes of both List instances live in the one memory mem.
\* No mutator of the three classes depends on the values; two distinct ones
\* tell the elements apart.
PairElems == {PyInt(1), PyInt(2)}

PairIdx == (0 - 1)..MaxPair

Caller == 1

\* The lists the caller may hold: [], [1], [1, 2], ...
CallerLists == {[j \in 1..n |-> PyInt(j)] : n \in 0..MaxInit}

InitPair ==
    /\ cls \in {"List", "PriorityQueue", "Vector"}
    /\ \E initial_elements \in CallerLists :
           store = [o \in ObjIds |-> IF o = Caller THEN initial_elements
                                     ELSE <<>>]
    /\ insts = [i \in 1..2 |-> NoInst]
    /\ who = 0
    /\ mem = [n \in NodeIds |-> FreeNode]
    /\ alloc = {}
    /\ head = None /\ tail = None /\ size = 0
    /\ data = <<>> /\ reverse = TRUE /\ compare = "None"
    /\ op = "init" /\ res = NoneVal
    /\ ref = <<>> /\ refres = NoneVal /\ fresh = TRUE /\ net = 0
    /\ pushed = <<>> /\ popped = <<>> /\ clean = TRUE

pairFrame == <<cls, head, tail, size, data, reverse, compare,
               ref, refres, fresh, net, pushed, popped, clean>>

Called(i, name, ret) ==
    /\ who' = i
    /\ op' = name
    /\ res' = ret
    /\ UNCHANGED pairFrame

\* The argument of a constructor call: nothing, or the caller's list.
Args == {None, Caller}

Elements(arg) == IF arg = None THEN <<>> ELSE store[arg]

\* The list object of instance i.
DataOf(i) == store[insts[i].data]

SetData(i, d) == store' = [store EXCEPT ![insts[i].data] = d]

\* The nodes instance j reaches.
NodesOf(j) == Range(Walk(mem, insts[j].head, MaxNodes + 1))

\* The List object of instance i, in the memory it shares with the other.
ListOf(i) ==
    [mem |-> mem, alloc |-> alloc, head |-> insts[i].head,
     tail |-> insts[i].tail, size |-> insts[i].size, keep |-> NodesOf(3 - i)]

\* Instance i becomes L; the nodes the call left unreachable are reclaimed
\* when it returns.
SetListOf(i, L) ==
    LET after == Collect(L)
    IN  /\ mem' = after.mem
        /\ alloc' = after.alloc
        /\ insts' = [insts EXCEPT ![i].built = TRUE, ![i].head = after.head,
                                  ![i].tail = after.tail,
                                  ![i].size = after.size]

Pair_Vector_init(i, arg) ==
    /\ cls = "Vector"
    /\ ~insts[i].built
    /\ LET r == V_construct(store, i + 1, arg)
       IN  /\ store' = r.store
           /\ insts' = [insts EXCEPT ![i].built = TRUE, ![i].data = r.data]
    /\ Called(i, "init", NoneVal)
    /\ UNCHANGED <<mem, alloc>>

Pair_Vector_push_back(i, value) ==
    /\ cls = "Vector"
    /\ insts[i].built
    /\ Len(DataOf(i)) < MaxPair
    /\ SetData(i, V_push_back(DataOf(i), value))
    /\ Called(i, "push_back", NoneVal)
    /\ UNCHANGED <<mem, alloc, insts>>

Pair_Vector_pop_back(i) ==
    /\ cls = "Vector"
    /\ insts[i].built
    /\ LET r == V_pop_back(DataOf(i))
       IN  SetData(i, r.data) /\ Called(i, "pop_back", r.ret)
    /\ UNCHANGED <<mem, alloc, insts>>

Pair_Vector_insert(i, index, value) ==
    /\ cls = "Vector"
    /\ insts[i].built
    /\ Len(DataOf(i)) < MaxPair
    /\ LET r == V_insert(DataOf(i), index, value)
       IN  SetData(i, r.data) /\ Called(i, "insert", r.ret)
    /\ UNCHANGED <<mem, alloc, insts>>

Pair_Vector_erase(i, index) ==
    /\ cls = "Vector"
    /\ insts[i].built
    /\ LET r == V_erase(DataOf(i), index)
       IN  SetData(i, r.data) /\ Called(i, "erase", r.ret)
    /\ UNCHANGED <<mem, alloc, insts>>

Pair_Vector_setitem(i, index, value) ==
    /\ cls = "Vector"
    /\ insts[i].built
    /\ LET r == V_setitem(DataOf(i), index, value)
       IN  SetData(i, r.data) /\ Called(i, "setitem", r.ret)
    /\ UNCHANGED <<mem, alloc, insts>>

Pair_Vector_clear(i) ==
    /\ cls = "Vector"
    /\ insts[i].built
    /\ SetData(i, V_clear(DataOf(i)))
    /\ Called(i, "clear", NoneVal)
    /\ UNCHANGED <<mem, alloc, insts>>

\* A constructor that raises builds no instance.
Pair_PriorityQueue_init(i, c, arg) ==
    /\ cls = "PriorityQueue"
    /\ ~insts[i].built
    /\ LET r == PQ_construct(c = "None", Elements(arg))
       IN  IF r.err
           THEN Called(i, "init", TypeError) /\ UNCHANGED <<store, insts>>
           ELSE /\ store' = [store EXCEPT ![i + 1] = r.data]
                /\ insts' = [insts EXCEPT ![i].built = TRUE,
                                          ![i].data = i + 1,
                                          ![i].reverse = (c = "None"),
                                          ![i].compare = c]
                /\ Called(i, "init", NoneVal)
    /\ UNCHANGED <<mem, alloc>>

Pair_PriorityQueue_push(i, value) ==
    /\ cls = "PriorityQueue"
    /\ insts[i].built
    /\ Len(DataOf(i)) < MaxPair
    /\ LET r == PQ_push(DataOf(i), insts[i].reverse, value)
       IN  SetData(i, r.data) /\ Called(i, "push", r.ret)
    /\ UNCHANGED <<mem, alloc, insts>>

Pair_PriorityQueue_pop(i) ==
    /\ cls = "PriorityQueue"
    /\ insts[i].built
    /\ LET r == PQ_pop(DataOf(i), insts[i].reverse)
       IN  SetData(i, r.data) /\ Called(i, "pop", r.ret)
    /\ UNCHANGED <<mem, alloc, insts>>

Pair_PriorityQueue_clear(i) ==
    /\ cls = "PriorityQueue"
    /\ insts[i].built
    /\ SetData(i, PQ_clear(DataOf(i)))
    /\ Called(i, "clear", NoneVal)
    /\ UNCHANGED <<mem, alloc, insts>>

Pair_List_init(i, arg) ==
    /\ cls = "List"
    /\ ~insts[i].built
    /\ Cardinality(NodesOf(3 - i)) + Len(Elements(arg)) <= MaxNodes
    /\ SetListOf(i, L_construct_loop(ListOf(i), Elements(arg)))
    /\ Called(i, "init", NoneVal)
    /\ UNCHANGED store

Pair_List_push_front(i, value) ==
    /\ cls = "List"
    /\ insts[i].built
    /\ insts[i].size < MaxPair
    /\ Cardinality(NodesOf(1) \cup NodesOf(2)) < MaxNodes
    /\ SetListOf(i, L_push_front(ListOf(i), value))
    /\ Called(i, "push_front", NoneVal)
    /\ UNCHANGED store

Pair_List_push_back(i, value) ==
    /\ cls = "List"
    /\ insts[i].built
    /\ insts[i].size < MaxPair
    /\ Cardinality(NodesOf(1) \cup NodesOf(2)) < MaxNodes
    /\ SetListOf(i, L_push_back(ListOf(i), value))
    /\ Called(i, "push_back", NoneVal)
    /\ UNCHANGED store

Pair_List_pop_front(i) ==
    /\ cls = "List"
    /\ insts[i].built
    /\ LET r == L_pop_front(ListOf(i))
       IN  SetListOf(i, r.st) /\ Called(i, "pop_front", r.ret)
    /\ UNCHANGED store

Pair_List_pop_back(i) ==
    /\ cls = "List"
    /\ insts[i].built
    /\ LET r == L_pop_back(ListOf(i))
       IN  SetListOf(i, r.st) /\ Called(i, "pop_back", r.ret)
    /\ UNCHANGED store

Pair_List_clear(i) ==
    /\ cls = "List"
    /\ insts[i].built
    /\ SetListOf(i, L_clear(ListOf(i)))
    /\ Called(i, "clear", NoneVal)
    /\ UNCHANGED store

NextPair ==
    \/ \E i \in 1..2, arg \in Args : Pair_Vector_init(i, arg)
    \/ \E i \in 1..2, value \in PairElems : Pair_Vector_push_back(i, value)
    \/ \E i \in 1..2 : Pair_Vector_pop_back(i)
    \/ \E i \in 1..2, index \in PairIdx, value \in PairElems :
           Pair_Vector_insert(i, index, value)
    \/ \E i \in 1..2, index \in PairIdx : Pair_Vector_erase(i, index)
    \/ \E i \in 1..2, index \in PairIdx, value \in PairElems :
           Pair_Vector_setitem(i, index, value)
    \/ \E i \in 1..2 : Pair_Vector_clear(i)
    \/ \E i \in 1..2, c \in Comparators \cup {"None"}, arg \in Args :
           Pair_PriorityQueue_init(i, c, arg)
    \/ \E i \in 1..2, value \in PairElems : Pair_PriorityQueue_push(i, value)
    \/ \E i \in 1..2 : Pair_PriorityQueue_pop(i)
    \/ \E i \in 1..2 : Pair_PriorityQueue_clear(i)
    \/ \E i \in 1..2, arg \in Args : Pair_List_init(i, arg)
    \/ \E i \in 1..2, value \in PairElems : Pair_List_push_front(i, value)
    \/ \E i \in 1..2, value \in PairElems : Pair_List_push_back(i, value)
    \/ \E i \in 1..2 : Pair_List_pop_front(i)
    \/ \E i \in 1..2 : Pair_List_pop_back(i)
    \/ \E i \in 1..2 : Pair_List_clear(i)

SpecPair == InitPair /\ [][NextPair]_vars

\* ---- reference double-ended queue ---------------------------------------
RefFront(q) == IF q = <<>> THEN IndexError ELSE Head(q)

RefBack(q) == IF q = <<>> THEN IndexError ELSE q[Len(q)]

\* Number of occurrences of e in the sequence s.
Count(e, s) == Cardinality({i \in 1..Len(s) : s[i] = e})

SameMultiset(s, t) ==
    \A e \in Range(s) \cup Range(t) : Count(e, s) = Count(e, t)

\* The nodes of the list, front to back.
Nodes == Walk(mem, head, MaxNodes + 1)

\* ---- claims -------------------------------------------------------------

\* C1: a List driven by push_front, push_back, pop_front and pop_back (and
\* the observers) returns from every call what a reference double-ended
\* queue returns, and front(), back() and size() agree with the reference
\* after every call.
C1_ListRefinesDeque ==
    cls = "List" =>
        /\ res = refres
        /\ L_front(self) = RefFront(ref)
        /\ L_back(self) = RefBack(ref)
        /\ L_size(self) = Len(ref)

\* push_back(2), push_back("a"), push_front(1), then pop_front() returned 1
\* and left front 2, back "a", size 2.
C1_Witness ==
    /\ cls = "List"
    /\ op = "pop_front"
    /\ res = PyInt(1)
    /\ ref = <<PyInt(2), [k |-> "str", v |-> 1]>>
    /\ L_front(self) = PyInt(2)
    /\ L_back(self) = [k |-> "str", v |-> 1]
    /\ L_size(self) = 2

AllNum(s) == \A i \in 1..Len(s) : s[i].k = "num"

AllStr(s) == \A i \in 1..Len(s) : s[i].k = "str"

NonIncreasing(s) == \A i, j \in 1..Len(s) : i < j => s[i].v >= s[j].v

\* C2: on a default-ordered PriorityQueue, after pushes of integers onto the
\* empty queue, the values returned by the following pops are integers in
\* non-increasing order.
C2_DefaultIntPopsNonIncreasing ==
    (cls = "PriorityQueue" /\ reverse /\ clean /\ AllNum(pushed)) =>
        AllNum(popped) /\ NonIncreasing(popped)

\* push(1), push(2), push(1) popped as 2, 1, 1.
C2_Witness ==
    /\ cls = "PriorityQueue"
    /\ reverse
    /\ clean
    /\ pushed = <<PyInt(1), PyInt(2), PyInt(1)>>
    /\ popped = <<PyInt(2), PyInt(1), PyInt(1)>>
    /\ data = <<>>

\* C3: with a custom comparator, whenever compare(a, b) holds for two
\* elements pushed onto the empty queue, a is popped before b.
C3_CustomCompareDecidesPopOrder ==
    (cls = "PriorityQueue" /\ compare # "None" /\ clean) =>
        \A i, j \in 1..Len(popped) :
            i < j => ~ApplyCompare(compare, popped[j], popped[i])

\* C4: pushing n elements onto the empty queue and popping n times returns
\* the pushed elements as a multiset and leaves the queue empty.
C4_PushPopRoundTrip ==
    (cls = "PriorityQueue" /\ clean /\ Len(popped) = Len(pushed)) =>
        SameMultiset(popped, pushed) /\ data = <<>>

\* C5: on an empty container pop_front, pop_back, front, back (List) and
\* pop, top (PriorityQueue) raise IndexError and leave the container as it
\* was: size 0, head and tail None, storage empty.
C5_EmptyContainerFails ==
    [][ /\ (cls = "List" /\ L_empty(self)
                /\ op' \in {"pop_front", "pop_back", "front", "back"})
           => (/\ res' = IndexError
               /\ UNCHANGED listVars
               /\ size' = 0 /\ head' = None /\ tail' = None)
        /\ (cls = "PriorityQueue" /\ PQ_empty(data) /\ op' \in {"pop", "top"})
           => (/\ res' = IndexError
               /\ data' = <<>>) ]_vars

\* pop on an empty PriorityQueue raised IndexError.
C5_Witness ==
    /\ cls = "PriorityQueue"
    /\ op = "pop"
    /\ res = IndexError
    /\ data = <<>>

\* C6: size() equals the number of successful insertions minus the number
\* of successful removals (clear removes every element present).
C6_SizeIsInsertionsMinusRemovals ==
    /\ cls = "List" => L_size(self) = net
    /\ cls = "PriorityQueue" => PQ_size(data) = net

\* C7: in a non-empty List head.prev and tail.next are None, and for the
\* nodes a, b of the list a.next is b exactly when b.prev is a.
C7_LinksConsistent ==
    (cls = "List" /\ ~L_empty(self)) =>
        /\ head \in NodeIds
        /\ tail \in NodeIds
        /\ mem[head].prev = None
        /\ mem[tail].next = None
        /\ \A a, b \in Range(Nodes) :
               (mem[a].next = b) <=> (mem[b].prev = a)

\* A list of three nodes whose front element was pushed by push_front.
C7_Witness ==
    /\ cls = "List"
    /\ op = "push_front"
    /\ Len(Nodes) = 3
    /\ mem[mem[head].next].prev = head

\* C8: size is the number of nodes met by following next from head;
\* size is 0 exactly when head and tail are both None; size is 1 exactly
\* when head and tail are one and the same node.
C8_SizeCountsNodes ==
    cls = "List" =>
        /\ size = Len(Nodes)
        /\ (size = 0) <=> (head = None /\ tail = None)
        /\ (size = 1) <=> (head # None /\ head = tail)

\* A pop_back that left exactly one node.
C8_Witness ==
    /\ cls = "List"
    /\ op = "pop_back"
    /\ res \in Elems
    /\ size = 1
    /\ head = tail

\* C9: on a default-ordered PriorityQueue holding strings, the pops come in
\* non-increasing (lexicographically greatest first) order.
C9_DefaultStringPopsNonIncreasing ==
    (cls = "PriorityQueue" /\ reverse /\ clean /\ AllStr(pushed)) =>
        NonIncreasing(popped)

\* C10: push_front, push_back and push return normally.
C10_PushNeverFails ==
    op \in {"push_front", "push_back", "push"} => ~IsExc(res)

\* The element values of the list, front to back.
Contents == [i \in 1..Len(Nodes) |-> mem[Nodes[i]].data]

\* C11: a container that has only been constructed and then extended by
\* push_back (List) or push (PriorityQueue) is in exactly the state the
\* constructor builds from the sequence of all its elements, and the
\* front-to-back contents of such a List are that sequence.
C11_ConstructionIsRepeatedInsertion ==
    /\ (cls = "List" /\ fresh) =>
           /\ self = L_construct(ref)
           /\ Contents = ref
    /\ (cls = "PriorityQueue" /\ clean /\ popped = <<>>) =>
           LET r == PQ_construct(reverse, pushed)
           IN  ~r.err /\ data = r.data

\* Two push_back calls have built the list List([1, 2]) builds.
C11_Witness ==
    /\ cls = "List"
    /\ fresh
    /\ op = "push_back"
    /\ ref = <<PyInt(1), PyInt(2)>>
    /\ self = L_construct(<<PyInt(1), PyInt(2)>>)

\* C12: Stack is last-in first-out: pop returns, and top shows, the most
\* recently pushed element not yet popped (for a Stack built from a list,
\* the list's last element first); on an empty Stack both raise IndexError
\* and leave it empty.
C12_StackIsLifo ==
    cls = "Stack" =>
        /\ res = refres
        /\ S_top(data) = (IF ref = <<>> THEN IndexError ELSE Head(ref))
        /\ Len(data) = Len(ref)
        /\ (op \in {"pop", "top"} /\ res = IndexError) => data = <<>>

\* push(1), push(2), then pop() returned 2 and left 1 on top.
C12_Witness ==
    /\ cls = "Stack"
    /\ op = "pop"
    /\ res = PyInt(2)
    /\ data = <<PyInt(1)>>
    /\ S_top(data) = PyInt(1)

\* C13: Queue is first-in first-out: pop returns the oldest element pushed
\* and not yet popped, front() shows it, back() shows the newest; on an
\* empty Queue pop, front and back raise IndexError and leave it empty.
C13_QueueIsFifo ==
    cls = "Queue" =>
        /\ res = refres
        /\ Q_front(data) = (IF ref = <<>> THEN IndexError ELSE ref[Len(ref)])
        /\ Q_back(data) = (IF ref = <<>> THEN IndexError ELSE Head(ref))
        /\ Len(data) = Len(ref)
        /\ (op \in {"pop", "front", "back"} /\ res = IndexError) => data = <<>>

\* push(1), push(2), then pop() returned 1 and left 2 at the front.
C13_Witness ==
    /\ cls = "Queue"
    /\ op = "pop"
    /\ res = PyInt(1)
    /\ data = <<PyInt(2)>>
    /\ Q_front(data) = PyInt(2)

\* C14: StlMap agrees with a reference map in which insert stores the pair
\* and returns True only for an absent key, returns False and changes
\* nothing for a present key, and assignment always overwrites; no key has
\* two values and size() is the number of distinct keys.
C14_MapInsertKeepsExisting ==
    cls = "StlMap" =>
        /\ res = refres
        /\ data = {<<k, ref[k]>> : k \in DOMAIN ref}
        /\ \A p, q \in data : p[1] = q[1] => p = q
        /\ M_size(data) = Cardinality({p[1] : p \in data})

\* An insert on a present key returned False; the map holds {1: 2, 2: 1}.
C14_Witness ==
    /\ cls = "StlMap"
    /\ op = "insert"
    /\ res = PyBool(FALSE)
    /\ data = {<<PyInt(1), PyInt(2)>>, <<PyInt(2), PyInt(1)>>}
    /\ M_size(data) = 2

\* The values the queue holds, as pop and top hand them back.
Held(i) == Unentry(reverse, data[i])

IntQueue ==
    cls = "PriorityQueue" /\ reverse /\ data # <<>> /\ AllNum(data)

\* C15: on a default-ordered PriorityQueue holding integers, top() returns
\* the maximum of the stored values and leaves the storage unchanged, and a
\* pop() returns the value top() showed.
C15_TopIsMaximum ==
    [][ IntQueue =>
          /\ \A i \in 1..Len(data) : Held(i).v <= PQ_top(data, reverse).v
          /\ \E i \in 1..Len(data) : Held(i) = PQ_top(data, reverse)
          /\ op' = "top" => (res' = PQ_top(data, reverse) /\ data' = data)
          /\ op' = "pop" => res' = PQ_top(data, reverse) ]_vars

\* top() returned 2 on a queue of three integers.
C15_Witness ==
    /\ cls = "PriorityQueue"
    /\ reverse
    /\ op = "top"
    /\ res = PyInt(2)
    /\ Len(data) = 3
    /\ AllNum(data)

\* a outranks b in the ordering the queue was constructed with.
Outranks(a, b) ==
    IF reverse THEN a.v > b.v ELSE ApplyCompare(compare, a, b)

\* C16: in the storage of a PriorityQueue no element outranks the element
\* at its parent position, in the queue's active ordering.
C16_HeapProperty ==
    cls = "PriorityQueue" =>
        \A i \in 2..Len(data) :
            Comparable(Held(i), Held(i \div 2))
                => ~Outranks(Held(i), Held(i \div 2))

\* C17: the observers of List (front, back, size, empty, iteration, str)
\* and of PriorityQueue (top, size, empty, str) change no field of the
\* container, whether they return or raise.
C17_ObserversChangeNothing ==
    [][ /\ (cls = "List"
               /\ op' \in {"front", "back", "size", "empty", "iter", "str"})
           => UNCHANGED listVars
        /\ (cls = "PriorityQueue" /\ op' \in {"top", "size", "empty", "str"})
           => UNCHANGED pqVars ]_vars

\* A three-element List was rendered.
C17_Witness ==
    /\ cls = "List"
    /\ op = "str"
    /\ size = 3
    /\ res = PyText("List{1, 2, a}")

\* C18: clear() leaves a List with head and tail None and size 0, and a
\* PriorityQueue with empty storage: the state of a freshly constructed
\* empty container; on an empty container it changes nothing.
C18_ClearResets ==
    [][ /\ (cls = "List" /\ op' = "clear")
           => (/\ self' = EmptyList
               /\ L_empty(self) => UNCHANGED <<head, tail, size>>)
        /\ (cls = "PriorityQueue" /\ op' = "clear")
           => (/\ data' = <<>>
               /\ UNCHANGED <<reverse, compare>>
               /\ PQ_empty(data) => UNCHANGED pqVars) ]_vars

\* clear() on a PriorityQueue that had been filled.
C18_Witness ==
    /\ cls = "PriorityQueue"
    /\ op = "clear"
    /\ data = <<>>
    /\ net = 0
    /\ PQ_size(data) = 0

\* The values pop_front returns when called until the list is empty.
RECURSIVE Drain(_, _)
Drain(L, fuel) ==
    IF L_empty(L) \/ fuel = 0 THEN <<>>
    ELSE LET r == L_pop_front(L)
         IN  <<r.ret>> \o Drain(r.st, fuel - 1)

\* C19: iterating a List ends after exactly size() values, the elements in
\* the order pop_front would return them; an iteration just made is what a
\* new iteration yields; str() lists the elements in the same order.
C19_IterationFrontToBack ==
    cls = "List" =>
        /\ Len(L_iter(self)) = L_size(self)
        /\ L_iter(self) = Drain(self, MaxNodes + 1)
        /\ op = "iter" => res = PyList(L_iter(self))
        /\ L_str(self) =
               "List{" \o Join([i \in 1..Len(ref) |-> PyStr(ref[i])], ", ")
                       \o "}"

\* An iteration over three elements.
C19_Witness ==
    /\ cls = "List"
    /\ op = "iter"
    /\ res = PyList(<<PyInt(2), PyInt(1), [k |-> "str", v |-> 1]>>)
    /\ size = 3

\* What instance i holds, front to back (storage order for a heap), and the
\* number of elements it reports.
PairContents(i) ==
    IF ~insts[i].built THEN <<>>
    ELSE IF cls = "List" THEN L_iter([mem |-> mem, head |-> insts[i].head])
    ELSE DataOf(i)

PairSize(i) ==
    IF ~insts[i].built THEN 0
    ELSE IF cls = "List" THEN L_size([size |-> insts[i].size])
    ELSE Len(DataOf(i))

\* C20: of two List, two PriorityQueue or two Vector instances, built from
\* the same caller list or from nothing, a call on one (its construction
\* included) leaves the contents and the size of the other unchanged, and
\* the caller's list unchanged.
C20_InstancesShareNothing ==
    [][ /\ \A i \in 1..2 :
               who' # i => /\ PairContents(i)' = PairContents(i)
                           /\ PairSize(i)' = PairSize(i)
        /\ store'[Caller] = store[Caller] ]_vars

\* Two Vectors built from the caller's list [1, 2]; the first has lost an
\* element, the second and the caller's list still hold both.
C20_Witness ==
    /\ cls = "Vector"
    /\ insts[1].built /\ insts[2].built
    /\ who = 1 /\ op = "pop_back"
    /\ store[Caller] = <<PyInt(1), PyInt(2)>>
    /\ PairContents(1) = <<PyInt(1)>>
    /\ PairContents(2) = <<PyInt(1), PyInt(2)>>

\* C21: on a Vector, at(i) and erase(i) raise IndexError for i < 0 or
\* i >= size(), insert(i, v) for i < 0 or i > size(), and a call that raises
\* leaves the contents unchanged; otherwise at(i) returns the element at i,
\* insert(i, v) puts v at position i, keeps the other elements in order and
\* adds one to size(), and erase(i) removes exactly the element at i.
C21_VectorBoundsChecked ==
    [][ cls = "Vector" =>
          LET i == ref'[1].v
              n == V_size(data)
          IN  /\ op' = "at" =>
                   /\ data' = data
                   /\ res' = IF i < 0 \/ i >= n THEN IndexError
                             ELSE data[i + 1]
              /\ op' = "erase" =>
                   IF i < 0 \/ i >= n
                   THEN res' = IndexError /\ data' = data
                   ELSE /\ res' = NoneVal
                        /\ V_size(data') = n - 1
                        /\ \A j \in 1..(n - 1) :
                               data'[j] = IF j <= i THEN data[j]
                                          ELSE data[j + 1]
              /\ op' = "insert" =>
                   IF i < 0 \/ i > n
                   THEN res' = IndexError /\ data' = data
                   ELSE /\ res' = NoneVal
                        /\ V_size(data') = n + 1
                        /\ data'[i + 1] = ref'[2]
                        /\ \A j \in 1..n :
                               data'[IF j <= i THEN j ELSE j + 1] = data[j] ]_vars

\* insert(1, 2) has put 2 between "a" and 1.
C21_Witness ==
    /\ cls = "Vector"
    /\ op = "insert"
    /\ ref = <<PyInt(1), PyInt(2)>>
    /\ res = NoneVal
    /\ data = <<[k |-> "str", v |-> 1], PyInt(2), PyInt(1)>>

\* No key of d has an empty value list, empty() and size() == 0 agree, and
\* contains(key) and count(key) > 0 agree for every key.
MM_Sound(d) ==
    /\ \A p \in d : p[2] # <<>>
    /\ MM_empty(d) <=> (MM_size(d) = 0)
    /\ \A key \in MapKeys : MM_contains(d, key) <=> (MM_count(d, key) > 0)

\* The pairs d holds under the keys other than key.
Others(d, key) == {p \in d : p[1] # key}

\* C22: a MultiMap never stores a key with an empty value list, so empty()
\* is true exactly when size() is 0 and contains(key) exactly when
\* count(key) > 0, after construction and after every call; erase(key)
\* returns the number of pairs it removed, all under key; erase_one(key,
\* value) removes one pair of key when value is among its values and no
\* pair otherwise.
C22_MultiMapKeepsNoEmptyKey ==
    [][ cls = "MultiMap" =>
          /\ MM_Sound(data)
          /\ MM_Sound(data')
          /\ op' = "erase" =>
               /\ res' = PyInt(MM_count(data, ref'[1]))
               /\ MM_size(data') = MM_size(data) - res'.v
               /\ MM_count(data', ref'[1]) = 0
               /\ Others(data', ref'[1]) = Others(data, ref'[1])
          /\ op' = "erase_one" =>
               /\ res' = PyInt(IF Member(DictGetOr(data, ref'[1], <<>>),
                                         ref'[2])
                               THEN 1 ELSE 0)
               /\ MM_size(data') = MM_size(data) - res'.v
               /\ MM_count(data', ref'[1]) = MM_count(data, ref'[1]) - res'.v
               /\ Others(data', ref'[1]) = Others(data, ref'[1]) ]_vars

\* erase_one(2, 1) removed the only pair of key 2, and the key with it.
C22_Witness ==
    /\ cls = "MultiMap"
    /\ op = "erase_one"
    /\ ref = <<PyInt(2), PyInt(1)>>
    /\ res = PyInt(1)
    /\ data = {<<PyInt(1), <<PyInt(1), PyInt(2)>>>>}
    /\ ~MM_contains(data, PyInt(2))

\* The nodes met by following prev from node n (at most fuel of them).
RECURSIVE WalkPrev(_, _, _)
WalkPrev(m, n, fuel) ==
    IF n = None \/ fuel = 0 THEN <<>>
    ELSE <<n>> \o WalkPrev(m, m[n].prev, fuel - 1)

BackNodes == WalkPrev(mem, tail, MaxNodes + 1)

\* C23: after a pop_front or pop_back that returned an element, the node
\* removed (the old head, the old tail) is met neither by following next
\* from head nor by following prev from tail; the other nodes remain, in
\* their order, and following prev from tail meets them in exactly the
\* reverse order.
C23_PopUnlinksNode ==
    [][ (cls = "List" /\ ~L_empty(self)) =>
          /\ op' = "pop_front" =>
               /\ head \notin Range(Nodes') \cup Range(BackNodes')
               /\ Nodes' = Tail(Nodes)
               /\ BackNodes' = Reverse(Nodes')
          /\ op' = "pop_back" =>
               /\ tail \notin Range(Nodes') \cup Range(BackNodes')
               /\ Nodes' = SubSeq(Nodes, 1, Len(Nodes) - 1)
               /\ BackNodes' = Reverse(Nodes') ]_vars

\* pop_back took the third node of a list; it is still allocated, and the
\* two that remain are linked both ways.
C23_Witness ==
    /\ cls = "List"
    /\ op = "pop_back"
    /\ ~IsExc(res)
    /\ Len(Nodes) = 2
    /\ Cardinality(alloc) = 3
    /\ BackNodes = <<tail, head>>

====
